---- MODULE Spec2Model ----
(***************************************************************************)
(* Order-management REST service (teste_Jitterbit): the controller         *)
(* handlers, the order workflow service, the data-access statements and    *)
(* the mapper, as a state machine over a transactional row store.          *)
(*                                                                         *)
(* Every `await` of the source is one step of the calling request; the     *)
(* synchronous code between two awaits belongs to the step that resumes.   *)
(* The store is PostgreSQL under READ COMMITTED: statements issued on a    *)
(* checked-out client between BEGIN and COMMIT stay private to that client *)
(* until COMMIT; statements issued through the pool's `query` autocommit.  *)
(***************************************************************************)
EXTENDS Integers, Sequences, FiniteSets, TLC

(* ------------------------------------------------------------------ *)
(* Bounds of the model                                                 *)
(* ------------------------------------------------------------------ *)
\* longest items array of an inbound order payload
MaxItems == 2
\* number of requests issued in one behaviour
MaxCalls == 2

(* ------------------------------------------------------------------ *)
(* JavaScript values                                                   *)
(* ------------------------------------------------------------------ *)
Undefined == [t |-> "undefined"]
Null == [t |-> "null"]
NaN == [t |-> "NaN"]
Num(n) == [t |-> "number", v |-> n]

IsInteger(x) == x.t = "number"

\* JavaScript truthiness of a value that is undefined, null, NaN or a number
Truthy(x) == x.t = "number" /\ x.v # 0

\* a || b
Or(a, b) == IF Truthy(a) THEN a ELSE b

\* Strings that the code takes apart are sequences of one-character strings.
Digits == {"0", "1", "2", "7", "8"}
DigitVal(c) ==
    CASE c = "0" -> 0 [] c = "1" -> 1 [] c = "2" -> 2 [] c = "7" -> 7
      [] c = "8" -> 8 [] OTHER -> 0

\* s.split('-')[0]: everything before the first hyphen, the whole string
\* when it holds none.
RECURSIVE SplitHead(_)
SplitHead(s) ==
    IF s = <<>> \/ Head(s) = "-" THEN <<>>
    ELSE <<Head(s)>> \o SplitHead(Tail(s))

\* parseInt(s, 10): leading white space is skipped, one sign is accepted, the
\* longest run of digits that follows is read; without any digit the result
\* is NaN. Trailing characters are ignored.
RECURSIVE SkipSpace(_)
SkipSpace(s) ==
    IF s # <<>> /\ Head(s) = " " THEN SkipSpace(Tail(s)) ELSE s

RECURSIVE DigitRun(_)
DigitRun(s) ==
    IF s # <<>> /\ Head(s) \in Digits THEN <<Head(s)>> \o DigitRun(Tail(s))
    ELSE <<>>

RECURSIVE DigitsValue(_)
DigitsValue(ds) ==
    IF ds = <<>> THEN 0
    ELSE 10 * DigitsValue(SubSeq(ds, 1, Len(ds) - 1)) + DigitVal(ds[Len(ds)])

parseIntTrailingRejected(s) ==
    LET t == SkipSpace(s)
        neg == t # <<>> /\ Head(t) = "-"
        u == IF t # <<>> /\ Head(t) \in {"-", "+"} THEN Tail(t) ELSE t
        ds == DigitRun(u)
    IN  IF ds = <<>> \/ ds # u THEN NaN
        ELSE Num(IF neg THEN 0 - DigitsValue(ds) ELSE DigitsValue(ds))

parseInt(s) ==
    LET t == SkipSpace(s)
        neg == t # <<>> /\ Head(t) = "-"
        u == IF t # <<>> /\ Head(t) \in {"-", "+"} THEN Tail(t) ELSE t
        ds == DigitRun(u)
    IN  IF ds = <<>> THEN NaN
        ELSE Num(IF neg THEN 0 - DigitsValue(ds) ELSE DigitsValue(ds))

\* new Date(s): the time value of the date strings of the model, in days
\* after 2024-01-01T00:00:00Z, or NaN for a string that is no date.
DateStrings ==
    {"2024-01-01T00:00:00+00:00", "2024-01-01T03:00:00+03:00",
     "2024-01-02T00:00:00Z", "2024-01-02T00:00:00.000Z", "ontem", ""}

DateParse(s) ==
    CASE s = "2024-01-01T00:00:00+00:00" -> Num(0)
      [] s = "2024-01-01T03:00:00+03:00" -> Num(0)
      [] s = "2024-01-01T00:00:00.000Z" -> Num(0)
      [] s = "2024-01-02T00:00:00Z" -> Num(1)
      [] s = "2024-01-02T00:00:00.000Z" -> Num(1)
      [] OTHER -> NaN

\* Date.prototype.toISOString of a valid time value
toISOString(d) ==
    IF d.v = 0 THEN "2024-01-01T00:00:00.000Z" ELSE "2024-01-02T00:00:00.000Z"

(* ------------------------------------------------------------------ *)
(* Errors                                                              *)
(* ------------------------------------------------------------------ *)
\* An error object: its constructor and the statement that raised it (for a
\* not-found error, the resource it names).
Err(name, at) == [name |-> name, at |-> at]
NoErr == Err("none", "none")

\* error.code: node-postgres sets the SQLSTATE of a failed statement.
PG_DUPLICATE_KEY_CODE == "23505"
ErrorCode(e) ==
    CASE e.name = "DuplicateKey" -> "23505"
      [] e.name = "DataError" -> "22P02"
      [] OTHER -> "none"

\* error.message.includes('inválidos')
MessageIncludesInvalidos(e) == e.name = "ValidationError"

\* The identifiers bound in the module scope of the service and of the
\* controller (their require lines and top-level const declarations).
ServiceScope == {"OrderModel", "mapToDatabaseFormat"}
ControllerScope == {"OrderService", "PG_DUPLICATE_KEY_CODE"}

\* The functions the service module exports.
ServiceExports ==
    {"createOrder", "getOrderDetails", "listAllOrders", "updateOrder",
     "deleteOrder", "updateItemOrder"}

\* new ResourceNotFoundException(resourceName, id) evaluated in the service:
\* the typed error when the identifier is bound, a ReferenceError otherwise.
NewResourceNotFoundException(resourceName) ==
    IF "ResourceNotFoundException" \in ServiceScope
    THEN Err("ResourceNotFoundException", resourceName)
    ELSE Err("ReferenceError", resourceName)

(* ------------------------------------------------------------------ *)
(* Mapper                                                              *)
(* ------------------------------------------------------------------ *)
\* inbound item {idItem, quantidadeItem, valorItem} -> {productId, quantity, price}
MapItem(item) ==
    [productId |-> parseInt(item.idItem),
     quantity |-> item.quantidadeItem,
     price |-> item.valorItem]

\* mapToDatabaseFormat(inputOrder): the mapped order, or the error thrown.
mapToDatabaseFormat(inputOrder) ==
    LET orderId == SplitHead(inputOrder.numeroPedido)
        date == DateParse(inputOrder.dataCriacao)
    IN  IF date = NaN
        THEN [threw |-> TRUE, error |-> Err("RangeError", "toISOString"),
              orderId |-> <<>>, value |-> 0, creationDate |-> "", items |-> <<>>]
        ELSE [threw |-> FALSE, error |-> NoErr,
              orderId |-> orderId,
              value |-> inputOrder.valorTotal,
              creationDate |-> toISOString(date),
              items |-> [i \in 1..Len(inputOrder.items) |->
                            MapItem(inputOrder.items[i])]]

(* ------------------------------------------------------------------ *)
(* Inputs                                                              *)
(* ------------------------------------------------------------------ *)
\* numeroPedido of the inbound payloads: "1-01", "2"
NumeroPedidos == {<<"1", "-", "0", "1">>, <<"2">>}
\* :orderId route parameters
OrderIdParams == {<<"1">>, <<"2">>}
\* dataCriacao of the inbound payloads
DataCriacaoInputs == {"2024-01-01T00:00:00+00:00", "ontem"}
\* dataCriacao of the payloads of a header update
DataCriacaoUpdates == {"2024-01-02T00:00:00Z", "ontem"}
\* valorTotal of the inbound payloads
Valores == {10}
\* valorTotal of the payloads of a header update
ValoresUpdate == {20}
\* idItem of the inbound items: "7", "x"
IdItems == {<<"7">>, <<"x">>}
\* :productId route parameters
ProductIdParams == {<<"7">>, <<"8">>, <<"x">>}

ItemInputs == [idItem : IdItems, quantidadeItem : {Num(1)}, valorItem : {Num(5)}]

SeqsUpTo(S, n) == UNION {[1..k -> S] : k \in 0..n}

OrderPayloads ==
    [numeroPedido : NumeroPedidos, dataCriacao : DataCriacaoInputs,
     valorTotal : Valores, items : SeqsUpTo(ItemInputs, MaxItems)]

\* bodies of PUT /order/:orderId/item/:productId, both spellings of each field
ItemBodies ==
    [quantidadeItem : {Undefined, Num(2)}, quantity : {Undefined, Null},
     valorItem : {Undefined, Num(6)}, price : {Undefined, Num(6)}]

NoBody == [none |-> TRUE]
NoMapped ==
    [threw |-> FALSE, error |-> NoErr, orderId |-> <<>>, value |-> 0,
     creationDate |-> "", items |-> <<>>]

(* ------------------------------------------------------------------ *)
(* State                                                               *)
(* ------------------------------------------------------------------ *)
VARIABLES
    Orders,      \* committed rows of table Orders (orderId, value, creationDate)
    Items,       \* committed rows of table Items, in heap order
    checkedOut,  \* clients checked out of OrderModel.pool
    calls,       \* requests issued so far
    call         \* per request in flight: position, arguments, client, outcome

vars == <<Orders, Items, checkedOut, calls, call>>

\* The clients of the service: each has at most one request in flight.
ClientNames == {"r1", "r2"}
Clients == DOMAIN call

\* The writes of an open transaction, private to its client until COMMIT.
NoTx == [hdrIns |-> <<>>, itemIns |-> <<>>, hdrUpd |-> <<>>, itemUpd |-> <<>>]

Idle ==
    [pc |-> "idle", ctl |-> "none", op |-> "none",
     orderId |-> <<>>, productId |-> 0, body |-> NoBody, itemData |-> NoBody,
     mapped |-> NoMapped, idx |-> 0,
     client |-> FALSE, tx |-> NoTx, err |-> NoErr, rowCount |-> 0,
     thrown |-> NoErr, returned |-> FALSE, resp |-> 0,
     log |-> <<>>]

\* The service starts on a database that is empty or that holds orders
\* created earlier: order "1" with two items and order "2" without items.
InitialStores ==
    {[orders |-> {}, items |-> <<>>],
     [orders |-> {[orderId |-> <<"1">>, value |-> 10,
                   creationDate |-> "2024-01-01T00:00:00.000Z"],
                  [orderId |-> <<"2">>, value |-> 10,
                   creationDate |-> "2024-01-01T00:00:00.000Z"]},
      items |-> <<[orderId |-> <<"1">>, productId |-> 7,
                   quantity |-> Num(1), price |-> Num(5)],
                  [orderId |-> <<"1">>, productId |-> 8,
                   quantity |-> Num(1), price |-> Num(5)]>>]}

Init ==
    /\ \E s \in InitialStores : Orders = s.orders /\ Items = s.items
    /\ checkedOut = 0
    /\ calls = 0
    /\ call = [p \in {"r1"} |-> Idle]

\* Two clients, whose requests interleave at every await.
InitConc ==
    /\ \E s \in InitialStores : Orders = s.orders /\ Items = s.items
    /\ checkedOut = 0
    /\ calls = 0
    /\ call = [p \in {"r1", "r2"} |-> Idle]

(* ------------------------------------------------------------------ *)
(* Store: schema rules and row visibility                              *)
(* ------------------------------------------------------------------ *)
\* Orders.orderId is the primary key: an insert of a key that a visible row
\* already holds is rejected.
UniqueViolation(tx, orderId) ==
    \/ \E o \in Orders : o.orderId = orderId
    \/ \E i \in 1..Len(tx.hdrIns) : tx.hdrIns[i].orderId = orderId

\* Items.productId is an integer column.
IntegerColumnRejects(v) == ~IsInteger(v)

\* Items.orderId references Orders ON DELETE CASCADE.
CascadeDelete(items, orderId) == SelectSeq(items, LAMBDA r : r.orderId # orderId)

\* Row locks held by the open transactions of the other requests.
HeaderLocked(p, orderId) ==
    \E q \in Clients \ {p} :
        \E i \in 1..Len(call[q].tx.hdrUpd) : call[q].tx.hdrUpd[i].orderId = orderId

ItemsLocked(p, orderId, productIds) ==
    \E q \in Clients \ {p} :
        \E i \in 1..Len(call[q].tx.itemUpd) :
            /\ call[q].tx.itemUpd[i].orderId = orderId
            /\ call[q].tx.itemUpd[i].productId \in productIds

KeyPending(p, orderId) ==
    \E q \in Clients \ {p} :
        \E i \in 1..Len(call[q].tx.hdrIns) : call[q].tx.hdrIns[i].orderId = orderId

ProductsOf(orderId) ==
    {Items[i].productId : i \in {j \in 1..Len(Items) : Items[j].orderId = orderId}}

(* ------------------------------------------------------------------ *)
(* Data access (OrderModel)                                            *)
(* ------------------------------------------------------------------ *)
\* INSERT INTO Orders ... on the transaction's client
insertOrder(tx, orderData) ==
    IF UniqueViolation(tx, orderData.orderId)
    THEN [error |-> Err("DuplicateKey", "insertOrder"), tx |-> tx]
    ELSE [error |-> NoErr,
          tx |-> [tx EXCEPT !.hdrIns = Append(@,
                    [orderId |-> orderData.orderId, value |-> orderData.value,
                     creationDate |-> orderData.creationDate])]]

\* INSERT INTO Items ... on the transaction's client
insertOrderItem(tx, orderId, item) ==
    IF IntegerColumnRejects(item.productId)
    THEN [error |-> Err("DataError", "insertOrderItem"), tx |-> tx]
    ELSE [error |-> NoErr,
          tx |-> [tx EXCEPT !.itemIns = Append(@,
                    [orderId |-> orderId, productId |-> item.productId.v,
                     quantity |-> item.quantity, price |-> item.price])]]

\* SELECT ... FROM Orders WHERE orderId = $1, through the pool
findOrderById(orderId) == {o \in Orders : o.orderId = orderId}

\* SELECT ... FROM Items WHERE orderId = $1, through the pool
findItemsByOrderId(orderId) == SelectSeq(Items, LAMBDA r : r.orderId = orderId)

\* UPDATE Orders SET value, creationDate WHERE orderId = $3, on the client
updateOrderHeader(tx, orderId, orderData) ==
    LET n == Cardinality(findOrderById(orderId))
    IN  [rowCount |-> n,
         tx |-> IF n = 0 THEN tx
                ELSE [tx EXCEPT !.hdrUpd = Append(@,
                        [orderId |-> orderId, value |-> orderData.value,
                         creationDate |-> orderData.creationDate])]]

\* UPDATE Items SET quantity, price WHERE orderId = $3 AND productId = $4
updateOrderItemStmt(tx, orderId, productId, itemData) ==
    LET n == Len(SelectSeq(Items,
                 LAMBDA r : r.orderId = orderId /\ r.productId = productId))
    IN  [rowCount |-> n,
         tx |-> IF n = 0 THEN tx
                ELSE [tx EXCEPT !.itemUpd = Append(@,
                        [orderId |-> orderId, productId |-> productId,
                         quantity |-> itemData.quantity, price |-> itemData.price])]]

\* DELETE FROM Orders WHERE orderId = $1, through the pool (autocommit)
deleteOrderHeader(orderId) ==
    [rowCount |-> Cardinality(findOrderById(orderId)),
     orders |-> {o \in Orders : o.orderId # orderId},
     items |-> CascadeDelete(Items, orderId)]

(* ------------------------------------------------------------------ *)
(* Transactions on a client                                            *)
(* ------------------------------------------------------------------ *)
RECURSIVE ApplyHdrUpd(_, _)
ApplyHdrUpd(orders, upd) ==
    IF upd = <<>> THEN orders
    ELSE ApplyHdrUpd(
            {IF o.orderId = Head(upd).orderId
             THEN [o EXCEPT !.value = Head(upd).value,
                            !.creationDate = Head(upd).creationDate]
             ELSE o : o \in orders},
            Tail(upd))

RECURSIVE ApplyItemUpd(_, _)
ApplyItemUpd(items, upd) ==
    IF upd = <<>> THEN items
    ELSE ApplyItemUpd(
            [i \in 1..Len(items) |->
                IF /\ items[i].orderId = Head(upd).orderId
                   /\ items[i].productId = Head(upd).productId
                THEN [items[i] EXCEPT !.quantity = Head(upd).quantity,
                                      !.price = Head(upd).price]
                ELSE items[i]],
            Tail(upd))

\* COMMIT: the transaction's writes become the committed rows.
CommitTx(tx) ==
    [orders |-> ApplyHdrUpd(Orders, tx.hdrUpd)
                  \cup {tx.hdrIns[i] : i \in 1..Len(tx.hdrIns)},
     items |-> ApplyItemUpd(Items, tx.itemUpd) \o tx.itemIns]

\* a catch block that ends the transaction with COMMIT
RollbackCommits(tx) == CommitTx(tx)

\* item rows written outside the transaction: ROLLBACK leaves them behind
RollbackKeepsItems(tx) == [orders |-> Orders, items |-> Items \o tx.itemIns]

\* ROLLBACK: the transaction's writes are discarded.
RollbackTx(tx) == [orders |-> Orders, items |-> Items]

(* ------------------------------------------------------------------ *)
(* Controller: status of the response                                  *)
(* ------------------------------------------------------------------ *)
\* `error instanceof ResourceNotFoundException` evaluated in the controller:
\* "throws" when the identifier is not bound there (a ReferenceError leaves
\* the handler and no response is sent).
InstanceOfNotFound(e) ==
    IF "ResourceNotFoundException" \notin ControllerScope THEN "throws"
    ELSE IF e.name = "ResourceNotFoundException" THEN "true" ELSE "false"

\* The status the handler `ctl` answers with when the service call ended
\* with `thrown` (NoErr: it returned); 0 when the handler sends no response.
Respond(ctl, thrown) ==
    CASE ctl = "createNewOrder" ->
            IF thrown = NoErr THEN 201
            ELSE IF ErrorCode(thrown) = PG_DUPLICATE_KEY_CODE THEN 409
            ELSE IF MessageIncludesInvalidos(thrown) THEN 400
            ELSE 500
      [] ctl = "getOrder" ->
            IF thrown = NoErr THEN 200 ELSE 500
      [] ctl = "updateExistingOrder" ->
            IF thrown = NoErr THEN 200
            ELSE IF InstanceOfNotFound(thrown) = "throws" THEN 0
            ELSE IF InstanceOfNotFound(thrown) = "true" THEN 404
            ELSE IF MessageIncludesInvalidos(thrown) THEN 400
            ELSE 500
      [] ctl = "updateOrderItem" ->
            IF thrown = NoErr THEN 200
            ELSE IF InstanceOfNotFound(thrown) = "throws" THEN 0
            ELSE IF InstanceOfNotFound(thrown) = "true" THEN 404
            ELSE IF MessageIncludesInvalidos(thrown) THEN 400
            ELSE 500
      [] ctl = "deleteExistingOrder" ->
            IF thrown = NoErr THEN 204
            ELSE IF InstanceOfNotFound(thrown) = "throws" THEN 0
            ELSE IF InstanceOfNotFound(thrown) = "true" THEN 404
            ELSE 500
      [] OTHER -> 0

\* The service call of request record c ends: it returns, or throws `thrown`;
\* the awaiting handler answers.
Settle(c, thrown) ==
    [c EXCEPT !.pc = "done", !.thrown = thrown, !.returned = (thrown = NoErr),
              !.resp = Respond(c.ctl, thrown)]

\* A fresh request record for handler ctl calling service function op.
NewCall(ctl, op, orderId, productId, body) ==
    [Idle EXCEPT !.ctl = ctl, !.op = op, !.orderId = orderId,
                 !.productId = productId, !.body = body]

CanStart(p) ==
    p \in Clients /\ call[p].pc \in {"idle", "done"} /\ calls < MaxCalls

\* client p has a call of service function op in flight
Running(p, op) == p \in Clients /\ call[p].op = op

(* ------------------------------------------------------------------ *)
(* Service: the transactional block shared by the write paths          *)
(* ------------------------------------------------------------------ *)
\* Whether client.release() of the finally block runs on an exit path:
\* "return", "throw" (ROLLBACK succeeded) or "rollbackFailed".
ReleaseOnlyAfterRollback(exit) == exit # "rollbackFailed"

Released(exit) == TRUE

\* const client = await OrderModel.pool.connect()
Connect(p) ==
    /\ call[p].pc = "connect"
    /\ \E fails \in BOOLEAN :
        IF fails
        THEN /\ call' = [call EXCEPT ![p] =
                            Settle(call[p], Err("ConnectionError", "connect"))]
             /\ UNCHANGED checkedOut
        ELSE /\ call' = [call EXCEPT ![p] =
                            [@ EXCEPT !.pc = "begin", !.client = TRUE,
                                      !.log = Append(@, "connect")]]
             /\ checkedOut' = checkedOut + 1
    /\ UNCHANGED <<Orders, Items, calls>>

\* await client.query('BEGIN')
Begin(p, next) ==
    /\ call[p].pc = "begin"
    /\ \E fails \in BOOLEAN :
        call' = [call EXCEPT ![p] =
                    IF fails
                    THEN [@ EXCEPT !.pc = "rollback", !.log = Append(@, "BEGIN"),
                                   !.err = Err("ConnectionError", "BEGIN")]
                    ELSE [@ EXCEPT !.pc = next, !.log = Append(@, "BEGIN")]]
    /\ UNCHANGED <<Orders, Items, checkedOut, calls>>

\* await client.query('COMMIT'), then the return statement and the finally
\* block; a COMMIT that fails leaves nothing committed and is caught.
Commit(p) ==
    /\ call[p].pc = "commit"
    /\ \E fails \in BOOLEAN :
        IF fails
        THEN /\ call' = [call EXCEPT ![p] =
                            [@ EXCEPT !.pc = "rollback", !.tx = NoTx,
                                      !.log = Append(@, "COMMIT"),
                                      !.err = Err("ConnectionError", "COMMIT")]]
             /\ UNCHANGED <<Orders, Items, checkedOut>>
        ELSE /\ Orders' = CommitTx(call[p].tx).orders
             /\ Items' = CommitTx(call[p].tx).items
             /\ IF Released("return")
                THEN /\ checkedOut' = checkedOut - 1
                     /\ call' = [call EXCEPT ![p] =
                            Settle([@ EXCEPT !.tx = NoTx, !.client = FALSE,
                                             !.log = @ \o <<"COMMIT", "release">>],
                                   NoErr)]
                ELSE /\ UNCHANGED checkedOut
                     /\ call' = [call EXCEPT ![p] =
                            Settle([@ EXCEPT !.tx = NoTx,
                                             !.log = Append(@, "COMMIT")], NoErr)]
    /\ UNCHANGED calls

\* catch (error) { await client.query('ROLLBACK'); throw error; }
\* finally { client.release(); }
\* A ROLLBACK that fails rejects the await inside the catch block: its error
\* leaves the function in place of the caught one. The server drops the
\* writes of the transaction either way.
Rollback(p) ==
    /\ call[p].pc = "rollback"
    /\ \E fails \in BOOLEAN :
        LET exit == IF fails THEN "rollbackFailed" ELSE "throw"
            thrown == IF fails THEN Err("ConnectionError", "ROLLBACK")
                      ELSE call[p].err
        IN  /\ Orders' = RollbackTx(call[p].tx).orders
            /\ Items' = RollbackTx(call[p].tx).items
            /\ IF Released(exit)
               THEN /\ checkedOut' = checkedOut - 1
                    /\ call' = [call EXCEPT ![p] =
                            Settle([@ EXCEPT !.tx = NoTx, !.client = FALSE,
                                             !.log = @ \o <<"ROLLBACK", "release">>],
                                   thrown)]
               ELSE /\ UNCHANGED checkedOut
                    /\ call' = [call EXCEPT ![p] =
                            Settle([@ EXCEPT !.tx = NoTx,
                                             !.log = Append(@, "ROLLBACK")], thrown)]
    /\ UNCHANGED calls

\* A statement of the try block failed with error e: control moves to catch.
Caught(c, stmt, e) ==
    [c EXCEPT !.pc = "rollback", !.err = e, !.log = Append(@, stmt)]

(* ------------------------------------------------------------------ *)
(* POST /order : createNewOrder -> createOrder                         *)
(* ------------------------------------------------------------------ *)
createNewOrder(p) ==
    /\ CanStart(p)
    /\ \E body \in OrderPayloads :
        LET c == NewCall("createNewOrder", "createOrder", <<>>, 0, NoBody)
            m == mapToDatabaseFormat(body)
        IN  call' = [call EXCEPT ![p] =
                        IF m.threw THEN Settle(c, m.error)
                        ELSE [c EXCEPT !.pc = "connect", !.mapped = m]]
    /\ calls' = calls + 1
    /\ UNCHANGED <<Orders, Items, checkedOut>>

\* await OrderModel.insertOrder(client, mappedData); the statement waits
\* while another open transaction holds an uncommitted row of the same key.
CreateInsertOrder(p) ==
    /\ call[p].pc = "insertOrder"
    /\ ~KeyPending(p, call[p].mapped.orderId)
    /\ \E fails \in BOOLEAN :
        LET r == insertOrder(call[p].tx, call[p].mapped)
        IN  call' = [call EXCEPT ![p] =
                IF fails
                THEN Caught(@, "insertOrder", Err("ConnectionError", "insertOrder"))
                ELSE IF r.error # NoErr
                THEN Caught(@, "insertOrder", r.error)
                ELSE [@ EXCEPT !.tx = r.tx, !.idx = 1,
                               !.log = Append(@, "insertOrder"),
                               !.pc = IF Len(call[p].mapped.items) = 0
                                      THEN "commit" ELSE "insertItem"]]
    /\ UNCHANGED <<Orders, Items, checkedOut, calls>>

\* for (const item of mappedData.items) await OrderModel.insertOrderItem(...)
CreateInsertItem(p) ==
    /\ call[p].pc = "insertItem"
    /\ \E fails \in BOOLEAN :
        LET c == call[p]
            r == insertOrderItem(c.tx, c.mapped.orderId, c.mapped.items[c.idx])
        IN  call' = [call EXCEPT ![p] =
                IF fails
                THEN Caught(@, "insertOrderItem",
                            Err("ConnectionError", "insertOrderItem"))
                ELSE IF r.error # NoErr
                THEN Caught(@, "insertOrderItem", r.error)
                ELSE [@ EXCEPT !.tx = r.tx, !.idx = @ + 1,
                               !.log = Append(@, "insertOrderItem"),
                               !.pc = IF c.idx = Len(c.mapped.items)
                                      THEN "commit" ELSE "insertItem"]]
    /\ UNCHANGED <<Orders, Items, checkedOut, calls>>

createOrder(p) ==
    /\ Running(p, "createOrder")
    /\ \/ Connect(p)
       \/ Begin(p, "insertOrder")
       \/ CreateInsertOrder(p)
       \/ CreateInsertItem(p)
       \/ Commit(p)
       \/ Rollback(p)

(* ------------------------------------------------------------------ *)
(* GET /order/:orderId : getOrder -> getOrderDetails                   *)
(* ------------------------------------------------------------------ *)
getOrder(p) ==
    /\ CanStart(p)
    /\ \E orderId \in OrderIdParams :
        call' = [call EXCEPT ![p] =
                    [NewCall("getOrder", "getOrderDetails", orderId, 0, NoBody)
                        EXCEPT !.pc = "findOrder"]]
    /\ calls' = calls + 1
    /\ UNCHANGED <<Orders, Items, checkedOut>>

getOrderDetails(p) ==
    /\ Running(p, "getOrderDetails")
    /\ \/ /\ call[p].pc = "findOrder"
          /\ \E fails \in BOOLEAN :
                call' = [call EXCEPT ![p] =
                    IF fails
                    THEN Settle(@, Err("ConnectionError", "findOrderById"))
                    ELSE IF findOrderById(@.orderId) = {}
                    THEN Settle([@ EXCEPT !.log = Append(@, "findOrderById")],
                                NewResourceNotFoundException("Pedido"))
                    ELSE [@ EXCEPT !.pc = "findItems",
                                   !.log = Append(@, "findOrderById")]]
       \/ /\ call[p].pc = "findItems"
          /\ \E fails \in BOOLEAN :
                call' = [call EXCEPT ![p] =
                    IF fails
                    THEN Settle(@, Err("ConnectionError", "findItemsByOrderId"))
                    ELSE Settle([@ EXCEPT !.log = Append(@, "findItemsByOrderId"),
                                          !.rowCount =
                                              Len(findItemsByOrderId(call[p].orderId))],
                                NoErr)]
    /\ UNCHANGED <<Orders, Items, checkedOut, calls>>

(* ------------------------------------------------------------------ *)
(* PUT /order/:orderId : updateExistingOrder; the service's updateOrder *)
(* ------------------------------------------------------------------ *)
\* payloads of a header update
UpdatePayloads ==
    [numeroPedido : {<<"2">>}, dataCriacao : DataCriacaoUpdates,
     valorTotal : ValoresUpdate, items : {<<>>}]

\* the member of OrderService the handler calls
UpdateHandlerCallee == "updateOrderHeaderOnly"

\* updateOrder(orderId, inputBody) up to its first await
StartUpdateOrder(ctl, orderId, body) ==
    LET c == NewCall(ctl, "updateOrder", orderId, 0, NoBody)
        m == mapToDatabaseFormat(body)
    IN  IF m.threw THEN Settle(c, m.error)
        ELSE [c EXCEPT !.pc = "connect", !.mapped = m]

\* Calling a member the service does not export throws a TypeError inside
\* the handler's try block.
updateExistingOrder(p) ==
    /\ CanStart(p)
    /\ \E orderId \in OrderIdParams, body \in UpdatePayloads :
        call' = [call EXCEPT ![p] =
                    IF UpdateHandlerCallee \in ServiceExports
                    THEN StartUpdateOrder("updateExistingOrder", orderId, body)
                    ELSE Settle(NewCall("updateExistingOrder", UpdateHandlerCallee,
                                        orderId, 0, body),
                                Err("TypeError", UpdateHandlerCallee))]
    /\ calls' = calls + 1
    /\ UNCHANGED <<Orders, Items, checkedOut>>

\* OrderService.updateOrder called as the module exports it
callUpdateOrder(p) ==
    /\ CanStart(p)
    /\ \E orderId \in OrderIdParams, body \in UpdatePayloads :
        call' = [call EXCEPT ![p] = StartUpdateOrder("none", orderId, body)]
    /\ calls' = calls + 1
    /\ UNCHANGED <<Orders, Items, checkedOut>>

\* const order = await OrderModel.findOrderById(orderId), inside the try
UpdateFindOrder(p) ==
    /\ call[p].pc = "findOrder"
    /\ \E fails \in BOOLEAN :
        call' = [call EXCEPT ![p] =
            IF fails
            THEN Caught(@, "findOrderById", Err("ConnectionError", "findOrderById"))
            ELSE IF findOrderById(@.orderId) = {}
            THEN Caught(@, "findOrderById", NewResourceNotFoundException("Pedido"))
            ELSE [@ EXCEPT !.pc = "updateHeader",
                           !.log = Append(@, "findOrderById")]]
    /\ UNCHANGED <<Orders, Items, checkedOut, calls>>

\* an updateOrder that reads the statement's rowCount and raises Not-Found
\* when the UPDATE matched no row
UpdateHeaderChecksRowCount(p) ==
    /\ call[p].pc = "updateHeader"
    /\ ~HeaderLocked(p, call[p].orderId)
    /\ \E fails \in BOOLEAN :
        LET r == updateOrderHeader(call[p].tx, call[p].orderId, call[p].mapped)
        IN  call' = [call EXCEPT ![p] =
                IF fails
                THEN Caught(@, "updateOrderHeader",
                            Err("ConnectionError", "updateOrderHeader"))
                ELSE IF r.rowCount = 0
                THEN Caught([@ EXCEPT !.rowCount = 0], "updateOrderHeader",
                            NewResourceNotFoundException("Pedido"))
                ELSE [@ EXCEPT !.tx = r.tx, !.rowCount = r.rowCount,
                               !.pc = "commit",
                               !.log = Append(@, "updateOrderHeader")]]
    /\ UNCHANGED <<Orders, Items, checkedOut, calls>>

\* await OrderModel.updateOrderHeader(client, orderId, mappedData); the
\* statement waits while another open transaction holds the row's lock.
UpdateHeader(p) ==
    /\ call[p].pc = "updateHeader"
    /\ ~HeaderLocked(p, call[p].orderId)
    /\ \E fails \in BOOLEAN :
        LET r == updateOrderHeader(call[p].tx, call[p].orderId, call[p].mapped)
        IN  call' = [call EXCEPT ![p] =
                IF fails
                THEN Caught(@, "updateOrderHeader",
                            Err("ConnectionError", "updateOrderHeader"))
                ELSE [@ EXCEPT !.tx = r.tx, !.rowCount = r.rowCount,
                               !.pc = "commit",
                               !.log = Append(@, "updateOrderHeader")]]
    /\ UNCHANGED <<Orders, Items, checkedOut, calls>>

updateOrder(p) ==
    /\ Running(p, "updateOrder")
    /\ \/ Connect(p)
       \/ Begin(p, "findOrder")
       \/ UpdateFindOrder(p)
       \/ UpdateHeader(p)
       \/ Commit(p)
       \/ Rollback(p)

(* ------------------------------------------------------------------ *)
(* PUT /order/:orderId/item/:productId : updateOrderItem -> updateItemOrder *)
(* ------------------------------------------------------------------ *)
\* itemData of updateItemOrder: per field, the first spelling when truthy,
\* the second otherwise
ItemData(inputItemBody) ==
    [quantity |-> Or(inputItemBody.quantidadeItem, inputItemBody.quantity),
     price |-> Or(inputItemBody.valorItem, inputItemBody.price)]

\* itemData.quantity === undefined || itemData.price === undefined
FailsValidation(itemData) ==
    itemData.quantity = Undefined \/ itemData.price = Undefined

\* updateItemOrder(orderId, productId, inputItemBody) up to its first await
StartUpdateItemOrder(ctl, orderId, productId, body) ==
    LET c == [NewCall(ctl, "updateItemOrder", orderId, productId, body)
                EXCEPT !.itemData = ItemData(body)]
    IN  IF FailsValidation(ItemData(body))
        THEN Settle(c, Err("ValidationError", "updateItemOrder"))
        ELSE [c EXCEPT !.pc = "findOrder"]

\* The handler answers 400 itself when :productId is not a number.
updateOrderItem(p) ==
    /\ CanStart(p)
    /\ \E orderId \in OrderIdParams, productId \in ProductIdParams,
          body \in ItemBodies :
        LET numericProductId == parseInt(productId)
        IN  call' = [call EXCEPT ![p] =
                IF numericProductId = NaN
                THEN [NewCall("updateOrderItem", "none", orderId, 0, body)
                        EXCEPT !.pc = "done", !.resp = 400]
                ELSE StartUpdateItemOrder("updateOrderItem", orderId,
                                          numericProductId.v, body)]
    /\ calls' = calls + 1
    /\ UNCHANGED <<Orders, Items, checkedOut>>

\* const orderResult = await OrderModel.findOrderById(orderId), before the
\* client is acquired and outside the try block
ItemFindOrder(p) ==
    /\ call[p].pc = "findOrder"
    /\ \E fails \in BOOLEAN :
        call' = [call EXCEPT ![p] =
            IF fails
            THEN Settle(@, Err("ConnectionError", "findOrderById"))
            ELSE IF findOrderById(@.orderId) = {}
            THEN Settle([@ EXCEPT !.log = Append(@, "findOrderById")],
                        NewResourceNotFoundException("Pedido"))
            ELSE [@ EXCEPT !.pc = "connect", !.log = Append(@, "findOrderById")]]
    /\ UNCHANGED <<Orders, Items, checkedOut, calls>>

\* const updateResult = await OrderModel.updateOrderItem(client, ...); zero
\* rows affected throws the not-found error for the item.
ItemUpdate(p) ==
    /\ call[p].pc = "updateItem"
    /\ ~ItemsLocked(p, call[p].orderId, {call[p].productId})
    /\ \E fails \in BOOLEAN :
        LET r == updateOrderItemStmt(call[p].tx, call[p].orderId, call[p].productId,
                                  call[p].itemData)
        IN  call' = [call EXCEPT ![p] =
                IF fails
                THEN Caught(@, "updateOrderItem",
                            Err("ConnectionError", "updateOrderItem"))
                ELSE IF r.rowCount = 0
                THEN Caught([@ EXCEPT !.rowCount = 0], "updateOrderItem",
                            NewResourceNotFoundException("Item no Pedido"))
                ELSE [@ EXCEPT !.tx = r.tx, !.rowCount = r.rowCount,
                               !.pc = "commit",
                               !.log = Append(@, "updateOrderItem")]]
    /\ UNCHANGED <<Orders, Items, checkedOut, calls>>

updateItemOrder(p) ==
    /\ Running(p, "updateItemOrder")
    /\ \/ ItemFindOrder(p)
       \/ Connect(p)
       \/ Begin(p, "updateItem")
       \/ ItemUpdate(p)
       \/ Commit(p)
       \/ Rollback(p)

(* ------------------------------------------------------------------ *)
(* DELETE /order/:orderId : deleteExistingOrder -> deleteOrder         *)
(* ------------------------------------------------------------------ *)
deleteExistingOrder(p) ==
    /\ CanStart(p)
    /\ \E orderId \in OrderIdParams :
        call' = [call EXCEPT ![p] =
                    [NewCall("deleteExistingOrder", "deleteOrder", orderId, 0, NoBody)
                        EXCEPT !.pc = "deleteHeader"]]
    /\ calls' = calls + 1
    /\ UNCHANGED <<Orders, Items, checkedOut>>

\* const result = await OrderModel.deleteOrderHeader(orderId); the statement
\* waits while an open transaction holds a lock on the header or on one of
\* the items the cascade removes.
deleteOrder(p) ==
    /\ Running(p, "deleteOrder")
    /\ call[p].pc = "deleteHeader"
    /\ ~HeaderLocked(p, call[p].orderId)
    /\ ~ItemsLocked(p, call[p].orderId, ProductsOf(call[p].orderId))
    /\ \E fails \in BOOLEAN :
        LET r == deleteOrderHeader(call[p].orderId)
        IN  IF fails
            THEN /\ call' = [call EXCEPT ![p] =
                        Settle(@, Err("ConnectionError", "deleteOrderHeader"))]
                 /\ UNCHANGED <<Orders, Items>>
            ELSE /\ Orders' = r.orders
                 /\ Items' = r.items
                 /\ call' = [call EXCEPT ![p] =
                        Settle([@ EXCEPT !.rowCount = r.rowCount,
                                         !.log = Append(@, "deleteOrderHeader")],
                               IF r.rowCount = 0
                               THEN NewResourceNotFoundException("Pedido")
                               ELSE NoErr)]
    /\ UNCHANGED <<checkedOut, calls>>

(* ------------------------------------------------------------------ *)
(* Specification                                                       *)
(* ------------------------------------------------------------------ *)
Next ==
    \E p \in ClientNames :
        \/ createNewOrder(p)
        \/ createOrder(p)
        \/ getOrder(p)
        \/ getOrderDetails(p)
        \/ updateExistingOrder(p)
        \/ callUpdateOrder(p)
        \/ updateOrder(p)
        \/ updateOrderItem(p)
        \/ updateItemOrder(p)
        \/ deleteExistingOrder(p)
        \/ deleteOrder(p)

Spec == Init /\ [][Next]_vars

\* The requests two concurrent clients send: the four writing operations on
\* order "1", each with a payload that reaches the database; the items of a
\* new order are of distinct products.
ConcurrentRequest(c) ==
    /\ c.op \in {"createOrder", "updateOrder", "updateItemOrder", "deleteOrder"}
    /\ c.pc # "done"
    /\ c.op = "createOrder" =>
            /\ c.mapped.orderId = <<"1">>
            /\ \A i, j \in 1..Len(c.mapped.items) :
                    c.mapped.items[i].productId = c.mapped.items[j].productId
                        => i = j
    /\ c.op # "createOrder" => c.orderId = <<"1">>
    /\ c.op = "updateItemOrder" =>
            /\ c.productId = 7
            /\ c.body.quantity = Undefined
            /\ c.body.price = Undefined

NextConc ==
    \E p \in ClientNames :
        \/ createNewOrder(p) /\ ConcurrentRequest(call'[p])
        \/ createOrder(p)
        \/ callUpdateOrder(p) /\ ConcurrentRequest(call'[p])
        \/ updateOrder(p)
        \/ updateOrderItem(p) /\ ConcurrentRequest(call'[p])
        \/ updateItemOrder(p)
        \/ deleteExistingOrder(p) /\ ConcurrentRequest(call'[p])
        \/ deleteOrder(p)

SpecConc == InitConc /\ [][NextConc]_vars

(* ------------------------------------------------------------------ *)
(* The mapper on its own                                               *)
(* ------------------------------------------------------------------ *)
\* numeroPedido: "1-01", "1", "-1", "1-0-1", "", "12-"
MapperNumeros ==
    {<<"1", "-", "0", "1">>, <<"1">>, <<"-", "1">>, <<"1", "-", "0", "-", "1">>,
     <<>>, <<"1", "2", "-">>}
\* idItem: "7", "78", " 7", "-7", "7x", "x", "", "x7"
MapperIdItems ==
    {<<"7">>, <<"7", "8">>, <<" ", "7">>, <<"-", "7">>, <<"7", "x">>, <<"x">>,
     <<>>, <<"x", "7">>}

MapperInputs ==
    [numeroPedido : MapperNumeros, dataCriacao : DateStrings, valorTotal : Valores,
     items : SeqsUpTo([idItem : MapperIdItems, quantidadeItem : {Num(1)},
                       valorItem : {Num(5)}], MaxItems)]

InitMapper ==
    /\ Orders = {}
    /\ Items = <<>>
    /\ checkedOut = 0
    /\ calls = 0
    /\ \E input \in MapperInputs :
        call = [p \in {"r1"} |->
                   [Idle EXCEPT !.op = "mapToDatabaseFormat", !.body = input]]

\* mapToDatabaseFormat applied to the input; the call touches nothing else.
ApplyMapper ==
    /\ call["r1"].pc = "idle"
    /\ call' = [call EXCEPT !["r1"] =
                    [@ EXCEPT !.pc = "done",
                              !.mapped = mapToDatabaseFormat(call["r1"].body)]]
    /\ UNCHANGED <<Orders, Items, checkedOut, calls>>

SpecMapper == InitMapper /\ [][ApplyMapper]_vars

(* ------------------------------------------------------------------ *)
(* Properties                                                          *)
(* ------------------------------------------------------------------ *)
Count(seq, x) == Cardinality({i \in 1..Len(seq) : seq[i] = x})
Logged(c, x) == \E i \in 1..Len(c.log) : c.log[i] = x
Done(p) == call[p].pc = "done"

\* rows a createOrder call with mapped order m is to add
HeaderOf(m) == [orderId |-> m.orderId, value |-> m.value, creationDate |-> m.creationDate]
ItemRowsOf(m) ==
    [i \in 1..Len(m.items) |->
        [orderId |-> m.orderId, productId |-> m.items[i].productId.v,
         quantity |-> m.items[i].quantity, price |-> m.items[i].price]]

\* C1: every step of a createOrder call leaves the committed store as it
\* was, except the step on which the call returns: that one adds exactly the
\* header row of the mapped order and its N item rows, after which the store
\* holds one header and N items for the mapped orderId. A call that fails
\* has therefore added no row, and no step shows a header with fewer items.
C1_CreateIsAtomic ==
    [][\A p \in Clients :
        (call[p].op = "createOrder" /\ call[p].pc # "done"
            /\ call'[p].pc # call[p].pc)
        => IF call'[p].pc = "done" /\ call'[p].returned
           THEN LET m == call[p].mapped
                IN  /\ HeaderOf(m) \notin Orders
                    /\ Orders' = Orders \cup {HeaderOf(m)}
                    /\ Items' = Items \o ItemRowsOf(m)
                    /\ Cardinality({o \in Orders' : o.orderId = m.orderId}) = 1
                    /\ Len(SelectSeq(Items', LAMBDA r : r.orderId = m.orderId))
                          = Len(m.items)
           ELSE Orders' = Orders /\ Items' = Items]_vars

\* a createOrder call returned after inserting a header and two or more items
C1_Witness ==
    \E p \in Clients :
        /\ Done(p) /\ call[p].op = "createOrder" /\ call[p].returned
        /\ Len(call[p].mapped.items) >= 2
        /\ Count(call[p].log, "insertOrderItem") = Len(call[p].mapped.items)

\* C2: a createOrder call whose header insert met an existing orderId ends
\* with the store unchanged, a ROLLBACK executed, the duplicate-key error
\* surfaced to the caller and 409 answered by POST /order.
C2_DuplicateConflict ==
    [][\A p \in Clients :
        (call[p].op = "createOrder" /\ call[p].pc = "rollback"
            /\ call[p].err.name = "DuplicateKey" /\ call'[p].pc = "done")
        => /\ Orders' = Orders /\ Items' = Items
           /\ Logged(call'[p], "ROLLBACK")
           /\ ErrorCode(call'[p].thrown) = PG_DUPLICATE_KEY_CODE
           /\ call'[p].resp = 409]_vars

\* C3: a getOrderDetails call that found no header row has thrown the typed
\* not-found error without reading the items, and GET /order/:orderId has
\* answered 404.
C3_GetNotFound ==
    \A p \in Clients :
        (Done(p) /\ call[p].op = "getOrderDetails" /\ call[p].thrown.at = "Pedido")
        => /\ call[p].thrown.name = "ResourceNotFoundException"
           /\ ~Logged(call[p], "findItemsByOrderId")
           /\ call[p].resp = 404

\* quantity or price has no non-null value under either spelling
AbsentField(a, b) == a \in {Undefined, Null} /\ b \in {Undefined, Null}
AbsentInput(body) ==
    \/ AbsentField(body.quantidadeItem, body.quantity)
    \/ AbsentField(body.valorItem, body.price)

\* C4: an updateItemOrder call whose input lacks quantity or price has ended
\* with the validation error and has issued nothing to the store.
C4_ValidationFirst ==
    \A p \in Clients :
        (call[p].op = "updateItemOrder" /\ AbsentInput(call[p].body))
        => /\ Done(p)
           /\ call[p].thrown.name = "ValidationError"
           /\ call[p].log = <<>>

\* C5: an updateItemOrder call whose update matched no item row of an
\* existing order ends with the typed not-found error for the item, after a
\* ROLLBACK, with the item table unchanged.
C5_ItemNotFound ==
    [][\A p \in Clients :
        (call[p].op = "updateItemOrder" /\ call[p].pc = "rollback"
            /\ call[p].err.at = "Item no Pedido" /\ call'[p].pc = "done")
        => /\ call'[p].thrown.name = "ResourceNotFoundException"
           /\ Logged(call'[p], "ROLLBACK")
           /\ Items' = Items]_vars

\* C6: the DELETE statement of deleteOrder(id), when it executes, removes
\* the header of id and its items and nothing else and the call succeeds,
\* or, when id has no header, changes nothing and the call throws the typed
\* not-found error.
C6_DeleteFrame ==
    [][\A p \in Clients :
        (call[p].op = "deleteOrder" /\ call[p].pc = "deleteHeader"
            /\ call'[p].pc = "done" /\ Logged(call'[p], "deleteOrderHeader"))
        => LET id == call[p].orderId
           IN  IF \E o \in Orders : o.orderId = id
               THEN /\ Orders' = {o \in Orders : o.orderId # id}
                    /\ Items' = SelectSeq(Items, LAMBDA r : r.orderId # id)
                    /\ call'[p].returned
               ELSE /\ Orders' = Orders /\ Items' = Items
                    /\ call'[p].thrown.name = "ResourceNotFoundException"]_vars

\* C7: PUT /order/:orderId with a payload that maps, for an order that
\* exists, has answered 200 after BEGIN, the existence check, the update and
\* COMMIT, and the order holds the mapped value and creationDate.
C7_PutUpdatesHeader ==
    \A p \in Clients :
        (Done(p) /\ call[p].ctl = "updateExistingOrder"
            /\ ~mapToDatabaseFormat(call[p].body).threw
            /\ findOrderById(call[p].orderId) # {})
        => /\ call[p].resp = 200
           /\ call[p].log = <<"connect", "BEGIN", "findOrderById",
                               "updateOrderHeader", "COMMIT", "release">>
           /\ \A o \in findOrderById(call[p].orderId) :
                /\ o.value = mapToDatabaseFormat(call[p].body).value
                /\ o.creationDate = mapToDatabaseFormat(call[p].body).creationDate

\* C8: the clients checked out of the pool are exactly those of the calls
\* inside their transactional block; a call that has ended released the
\* client it acquired exactly once; with no call in flight none is checked out.
C8_ClientReleased ==
    /\ checkedOut = Cardinality({p \in Clients : call[p].client})
    /\ \A p \in Clients :
        Done(p) =>
            /\ ~call[p].client
            /\ Count(call[p].log, "connect") <= 1
            /\ Count(call[p].log, "release") = Count(call[p].log, "connect")
    /\ (\A p \in Clients : call[p].pc \in {"idle", "done"}) => checkedOut = 0

\* a write path ended through a ROLLBACK that itself failed, client released
C8_Witness ==
    \E p \in Clients :
        /\ Done(p) /\ call[p].thrown = Err("ConnectionError", "ROLLBACK")
        /\ Logged(call[p], "connect") /\ Logged(call[p], "release")
        /\ checkedOut = 0

\* C9: a call that caught an error inside its transactional block executed
\* ROLLBACK and threw to its caller the very error it caught.
C9_OriginalErrorPropagates ==
    \A p \in Clients :
        (Done(p) /\ call[p].err # NoErr)
        => /\ Logged(call[p], "ROLLBACK")
           /\ call[p].thrown = call[p].err

\* What JavaScript yields for the inputs of the mapper's model.
ParseableDates ==
    {"2024-01-01T00:00:00+00:00", "2024-01-01T03:00:00+03:00",
     "2024-01-02T00:00:00Z", "2024-01-02T00:00:00.000Z"}

ExpectedIso(s) ==
    IF s \in {"2024-01-01T00:00:00+00:00", "2024-01-01T03:00:00+03:00"}
    THEN "2024-01-01T00:00:00.000Z" ELSE "2024-01-02T00:00:00.000Z"

\* parseInt(idItem, 10) of "7", "78", " 7", "-7", "7x"; NaN for "x", "", "x7"
ExpectedProductId(idItem) ==
    CASE idItem = <<"7">> -> Num(7)
      [] idItem = <<"7", "8">> -> Num(78)
      [] idItem = <<" ", "7">> -> Num(7)
      [] idItem = <<"-", "7">> -> Num(0 - 7)
      [] idItem = <<"7", "x">> -> Num(7)
      [] OTHER -> NaN

\* s up to, not including, its first hyphen
BeforeFirstHyphen(s) ==
    LET hy == {i \in 1..Len(s) : s[i] = "-"}
    IN  IF hy = {} THEN s
        ELSE SubSeq(s, 1, (CHOOSE i \in hy : \A j \in hy : i <= j) - 1)

MapperRan == call["r1"].op = "mapToDatabaseFormat" /\ call["r1"].pc = "done"

UpdateReturnedLog ==
    <<"connect", "BEGIN", "findOrderById", "updateOrderHeader", "COMMIT", "release">>

\* the UPDATE statement of updateOrder call c resolved and matched no row
UpdatedZeroRows(c) ==
    /\ c.op = "updateOrder"
    /\ Logged(c, "updateOrderHeader")
    /\ c.err # Err("ConnectionError", "updateOrderHeader")
    /\ c.rowCount = 0

\* C11: an updateOrder call whose UPDATE matched no row had passed its
\* existence check (the header was removed in between) and does not raise
\* Not-Found for it: it goes on to COMMIT and, unless COMMIT itself fails,
\* returns true after the whole sequence connect, BEGIN, findOrderById,
\* updateOrderHeader, COMMIT, release. The lost update is not detected.
C11_LostUpdateUndetected ==
    \A p \in Clients :
        LET c == call[p]
        IN  UpdatedZeroRows(c) =>
                /\ Count(c.log, "findOrderById") = 1
                /\ c.err # NewResourceNotFoundException("Pedido")
                /\ c.thrown # NewResourceNotFoundException("Pedido")
                /\ c.pc \in {"commit", "rollback", "done"}
                /\ c.pc = "rollback" => c.err = Err("ConnectionError", "COMMIT")
                /\ c.pc = "done" =>
                        IF c.err = NoErr
                        THEN /\ c.returned
                             /\ c.thrown = NoErr
                             /\ c.log = UpdateReturnedLog
                        ELSE /\ c.err = Err("ConnectionError", "COMMIT")
                             /\ ~c.returned

\* updateOrder(id) returned true although its UPDATE matched no row: a
\* concurrent deleteOrder(id) removed the header after the existence check
C11_Witness ==
    \E p \in Clients, q \in Clients :
        /\ p # q
        /\ UpdatedZeroRows(call[p])
        /\ Done(p) /\ call[p].returned /\ call[p].thrown = NoErr
        /\ call[p].log = UpdateReturnedLog
        /\ call[q].op = "deleteOrder" /\ Done(q) /\ call[q].returned
        /\ call[q].rowCount = 1
        /\ call[q].orderId = call[p].orderId
        /\ \A o \in Orders : o.orderId # call[p].orderId

\* C12: in every committed state of the store each item row references an
\* order header that exists.
C12_NoOrphanItems ==
    \A i \in 1..Len(Items) : \E o \in Orders : o.orderId = Items[i].orderId

\* deleteOrder removed an order together with its items and a createOrder
\* of another client then committed the same order with items of its own
C12_Witness ==
    \E p \in Clients, q \in Clients :
        /\ p # q
        /\ call[q].op = "deleteOrder" /\ Done(q) /\ call[q].returned
        /\ call[q].rowCount = 1
        /\ call[p].op = "createOrder" /\ Done(p) /\ call[p].returned
        /\ call[p].mapped.orderId = call[q].orderId
        /\ Len(call[p].mapped.items) >= 1
        /\ Items = ItemRowsOf(call[p].mapped)
        /\ HeaderOf(call[p].mapped) \in Orders
        /\ Cardinality(Orders) = 2

====
